---- MODULE Spec2Model ----
(***************************************************************************)
(* A model of rs-db (src/src/main.rs): a fixed-slot, page-based record     *)
(* store.  Rows are bincode-encoded into 4096-byte pages, pages are loaded *)
(* lazily from a seekable byte store and written back when the Pager is    *)
(* dropped.                                                                *)
(*                                                                         *)
(* Bytes are the integers 0..255.  A byte string (a Rust String, a &[u8],  *)
(* a [u8; N], the content of the backing file) is a sequence of bytes;     *)
(* Rust's 0-based index i is the sequence index i + 1.                     *)
(***************************************************************************)
EXTENDS Integers, Sequences, FiniteSets, TLC

TABLE_MAX_PAGES == 100
PAGE_SIZE == 4096
COLUMN_USERNAME_SIZE == 32
COLUMN_EMAIL_SIZE == 255

(***************************************************************************)
(* Byte strings                                                            *)
(***************************************************************************)
Repeat(b, n) == [i \in 1..n |-> b]

Min(a, b) == IF a < b THEN a ELSE b

\* std::cmp::max
max(a, b) == IF a >= b THEN a ELSE b

\* A UTF-8 continuation byte, 0b10xxxxxx.
IsContinuation(b) == b >= 128 /\ b < 192

\* str::is_char_boundary: 0 and len are boundaries; inside the string an index
\* is one unless the byte there is a continuation byte.
is_char_boundary(s, index) ==
    \/ index = 0
    \/ index = Len(s)
    \/ index < Len(s) /\ ~IsContinuation(s[index + 1])

\* Well-formed UTF-8, for the one- and two-byte forms (bytes below 0xE0): an
\* ASCII byte stands alone, a lead byte 0xC2..0xDF is followed by one
\* continuation byte, a continuation byte follows a lead byte.
IsUtf8(s) ==
    \A i \in 1..Len(s) :
        \/ s[i] < 128
        \/ s[i] >= 194 /\ s[i] < 224 /\ i < Len(s) /\ IsContinuation(s[i + 1])
        \/ IsContinuation(s[i]) /\ i > 1 /\ s[i - 1] >= 194 /\ s[i - 1] < 224

\* The white space str::trim removes (the ASCII part of Unicode White_Space).
IsWhitespace(b) == b = 32 \/ (b >= 9 /\ b <= 13)

\* str::trim: the slice without leading and trailing white space.
trim(s) ==
    LET keep == {i \in 1..Len(s) : ~IsWhitespace(s[i])}
    IN  IF keep = {} THEN <<>>
        ELSE SubSeq(s, CHOOSE i \in keep : \A j \in keep : i <= j,
                       CHOOSE i \in keep : \A j \in keep : i >= j)

(***************************************************************************)
(* Row and its encoding                                                    *)
(***************************************************************************)
\* String::truncate: keeps the first new_len bytes; a no-op when the string is
\* not longer; panics when new_len is not on a char boundary.
truncate(s, new_len) ==
    IF new_len <= Len(s)
    THEN IF is_char_boundary(s, new_len)
         THEN [panic |-> FALSE, s |-> SubSeq(s, 1, new_len)]
         ELSE [panic |-> TRUE, s |-> <<>>]
    ELSE [panic |-> FALSE, s |-> s]

pad_string(input, size) ==
    LET t == truncate(input, size)
    IN  IF t.panic THEN t
        ELSE [panic |-> FALSE, s |-> t.s \o Repeat(32, size - Len(t.s))]

Row_new(id, username, email) ==
    LET u == pad_string(username, COLUMN_USERNAME_SIZE)
        e == pad_string(email, COLUMN_EMAIL_SIZE)
    IN  IF u.panic \/ e.panic
        THEN [panic |-> TRUE, row |-> [id |-> id, username |-> <<>>, email |-> <<>>]]
        ELSE [panic |-> FALSE, row |-> [id |-> id, username |-> u.s, email |-> e.s]]

\* The row as `{:?}` shows it: both strings trimmed.
RowDebug(row) ==
    [id |-> row.id, username |-> trim(row.username), email |-> trim(row.email)]

\* bincode's fixed-width little-endian integer of k bytes.
RECURSIVE LittleEndian(_, _)
LittleEndian(n, k) ==
    IF k = 0 THEN <<>> ELSE <<n % 256>> \o LittleEndian(n \div 256, k - 1)

FromLittleEndian(b) ==
    LET RECURSIVE val(_)
        val(i) == IF i > Len(b) THEN 0 ELSE b[i] + 256 * val(i + 1)
    IN  val(1)

\* bincode::serialize(&Row): u32 id, then each String as a u64 length and its bytes.
Serialize(row) ==
    LittleEndian(row.id, 4)
        \o LittleEndian(Len(row.username), 8) \o row.username
        \o LittleEndian(Len(row.email), 8) \o row.email

\* bincode reading one String at 0-based position pos of b: a u64 length, that
\* many bytes, which must be UTF-8.  A length of 65536 or more exceeds every
\* slice this program decodes, so it is an error without being computed.
ReadString(b, pos) ==
    IF Len(b) < pos + 8 THEN [ok |-> FALSE, s |-> <<>>, next |-> pos]
    ELSE LET hdr == SubSeq(b, pos + 1, pos + 8)
         IN  IF \E i \in 3..8 : hdr[i] # 0 THEN [ok |-> FALSE, s |-> <<>>, next |-> pos]
             ELSE LET n == hdr[1] + 256 * hdr[2]
                      s == SubSeq(b, pos + 9, pos + 8 + n)
                  IN  IF n > Len(b) - (pos + 8) \/ ~IsUtf8(s)
                      THEN [ok |-> FALSE, s |-> <<>>, next |-> pos]
                      ELSE [ok |-> TRUE, s |-> s, next |-> pos + 8 + n]

\* bincode::deserialize::<Row>(slice); trailing bytes are allowed.
Deserialize(b) ==
    LET bad == [ok |-> FALSE, row |-> [id |-> 0, username |-> <<>>, email |-> <<>>]]
    IN  IF Len(b) < 4 THEN bad
        ELSE LET u == ReadString(b, 4)
             IN  IF ~u.ok THEN bad
                 ELSE LET e == ReadString(b, u.next)
                      IN  IF ~e.ok THEN bad
                          ELSE [ok |-> TRUE,
                                row |-> [id |-> FromLittleEndian(SubSeq(b, 1, 4)),
                                         username |-> u.s, email |-> e.s]]

(***************************************************************************)
(* Page                                                                    *)
(***************************************************************************)
\* Page::new taking the bytes it is given as written: end_offset at their end.
Page_new_written(data) == [bytes |-> data, end_offset |-> Len(data)]

Page_new(data) == [bytes |-> data, end_offset |-> 0]

\* Page::write refusing a write that ends exactly at the end of the page.
Page_write_strict(page, offset, data) ==
    IF Len(data) + offset >= PAGE_SIZE
    THEN [res |-> "not enough space to write", page |-> page]
    ELSE [res |-> "Ok",
          page |-> [bytes |-> SubSeq(page.bytes, 1, offset) \o data
                                \o SubSeq(page.bytes, offset + Len(data) + 1, PAGE_SIZE),
                    end_offset |-> max(offset + Len(data), page.end_offset)]]

\* Page::write setting end_offset to the end of this write, without the max.
Page_write_last(page, offset, data) ==
    IF Len(data) + offset > PAGE_SIZE
    THEN [res |-> "not enough space to write", page |-> page]
    ELSE [res |-> "Ok",
          page |-> [bytes |-> SubSeq(page.bytes, 1, offset) \o data
                                \o SubSeq(page.bytes, offset + Len(data) + 1, PAGE_SIZE),
                    end_offset |-> offset + Len(data)]]

\* Page::write: the result and the page after it.
Page_write(page, offset, data) ==
    IF Len(data) + offset > PAGE_SIZE
    THEN [res |-> "not enough space to write", page |-> page]
    ELSE [res |-> "Ok",
          page |-> [bytes |-> SubSeq(page.bytes, 1, offset) \o data
                                \o SubSeq(page.bytes, offset + Len(data) + 1, PAGE_SIZE),
                    end_offset |-> max(offset + Len(data), page.end_offset)]]

(***************************************************************************)
(* The backing store (a std::fs::File in main): a byte string that lives   *)
(* on between sessions.                                                    *)
(***************************************************************************)
\* seek(Start(offset)) then read(&mut data) with data of n bytes: the bytes
\* the store has there, fewer than n at its end.
FileRead(f, offset, n) == SubSeq(f, offset + 1, Min(Len(f), offset + n))

\* seek(Start(offset)) then write(buf): buf replaces the bytes at offset and
\* extends the store; a gap between the old end and offset reads as zeros.
\* Writing no bytes leaves a file as it is.
FileWrite(f, offset, buf) ==
    IF Len(buf) = 0 THEN f
    ELSE LET g == IF Len(f) < offset THEN f \o Repeat(0, offset - Len(f)) ELSE f
         IN  SubSeq(g, 1, offset) \o buf \o SubSeq(g, offset + Len(buf) + 1, Len(g))

(***************************************************************************)
(* Pager.  An Option<Page> is <<>> (None) or <<page>> (Some(page)).        *)
(***************************************************************************)
PageIds == 0..(TABLE_MAX_PAGES - 1)

Pager_new(f) == [file_size |-> Len(f), pages |-> [p \in PageIds |-> <<>>]]

\* Pager::flush writing the whole buffer, not only the bytes below end_offset.
Pager_flush_whole(pager, f, page_id) ==
    IF pager.pages[page_id] # <<>>
    THEN FileWrite(f, PAGE_SIZE * page_id, pager.pages[page_id][1].bytes)
    ELSE f

\* Pager::flush: the store after it.
Pager_flush(pager, f, page_id) ==
    LET offset == PAGE_SIZE * page_id
    IN  IF pager.pages[page_id] # <<>>
        THEN LET page == pager.pages[page_id][1]
             IN  FileWrite(f, offset, SubSeq(page.bytes, 1, page.end_offset))
        ELSE f

get_nb_pages(pager) ==
    LET rest == pager.file_size % PAGE_SIZE
        num_pages == pager.file_size \div PAGE_SIZE
    IN  [num_pages |-> IF rest # 0 THEN num_pages + 1 ELSE num_pages, rest |-> rest]

\* Pager::load_page without the test for a page that is already Some: every
\* call builds the page anew.
load_page_anew(pager, f, page_id, read_ok) ==
    LET num_pages == get_nb_pages(pager).num_pages
    IN  IF page_id >= TABLE_MAX_PAGES THEN [res |-> "panic", pager |-> pager]
        ELSE IF page_id + 1 < num_pages
        THEN IF ~read_ok THEN [res |-> "Failed to read file", pager |-> pager]
             ELSE LET got == FileRead(f, page_id * PAGE_SIZE, PAGE_SIZE)
                      data == got \o Repeat(0, PAGE_SIZE - Len(got))
                  IN  [res |-> "Ok",
                       pager |-> [pager EXCEPT !.pages[page_id] = <<Page_new(data)>>]]
        ELSE [res |-> "Ok",
              pager |-> [pager EXCEPT
                            !.pages[page_id] = <<Page_new(Repeat(0, PAGE_SIZE))>>]]

\* Pager::load_page.  read_ok tells whether the store's read succeeds, when
\* one is made.  Indexing self.pages beyond its length panics.
load_page(pager, f, page_id, read_ok) ==
    LET num_pages == get_nb_pages(pager).num_pages
    IN  IF page_id >= TABLE_MAX_PAGES THEN [res |-> "panic", pager |-> pager]
        ELSE IF pager.pages[page_id] # <<>> THEN [res |-> "Ok", pager |-> pager]
        ELSE IF page_id + 1 < num_pages
        THEN IF ~read_ok THEN [res |-> "Failed to read file", pager |-> pager]
             ELSE LET got == FileRead(f, page_id * PAGE_SIZE, PAGE_SIZE)
                      data == got \o Repeat(0, PAGE_SIZE - Len(got))
                  IN  [res |-> "Ok",
                       pager |-> [pager EXCEPT !.pages[page_id] = <<Page_new(data)>>]]
        ELSE [res |-> "Ok",
              pager |-> [pager EXCEPT
                            !.pages[page_id] = <<Page_new(Repeat(0, PAGE_SIZE))>>]]

\* The loop of Pager::drop from page_id on: the store after it.  Flushing a
\* page that is None does nothing, so the loop goes on at the next page that is
\* Some.
RECURSIVE Pager_drop_from(_, _, _)
Pager_drop_from(pager, f, page_id) ==
    LET some == {p \in PageIds : p >= page_id /\ pager.pages[p] # <<>>}
    IN  IF some = {} THEN f
        ELSE LET p == CHOOSE q \in some : \A r \in some : q <= r
             IN  Pager_drop_from(pager, Pager_flush(pager, f, p), p + 1)

\* impl Drop for Pager
Pager_drop(pager, f) == Pager_drop_from(pager, f, 0)

(***************************************************************************)
(* Table                                                                   *)
(***************************************************************************)
\* Table::new taking the store's size in bytes for the number of rows.
Table_new_bytes(pager) ==
    LET row_size == Len(Serialize(Row_new(0, <<>>, <<>>).row))
    IN  [pager |-> pager, nb_rows |-> pager.file_size, row_size |-> row_size]

Table_new(pager) ==
    LET row_size == Len(Serialize(Row_new(0, <<>>, <<>>).row))
        rows_per_page == PAGE_SIZE \div row_size
        np == get_nb_pages(pager)
        full_pages == max(np.num_pages, 1) - 1
        rows == full_pages * rows_per_page
    IN  [pager |-> pager, nb_rows |-> (rows + np.rest) \div row_size, row_size |-> row_size]

\* get_row_per_page rounding up: it counts the slot that only partly fits.
get_row_per_page_up(table) == (PAGE_SIZE + table.row_size - 1) \div table.row_size

get_row_per_page(table) == PAGE_SIZE \div table.row_size

\* get_page_id dividing by the size of a row, not by the rows of a page.
get_page_id_by_size(table, row_id) == row_id \div table.row_size

get_page_id(table, row_id) == row_id \div get_row_per_page(table)

\* get_row_offset with a slot one byte longer than a row.
get_row_offset_wide(table, row_id) ==
    (row_id % get_row_per_page(table)) * (table.row_size + 1)

get_row_offset(table, row_id) == (row_id % get_row_per_page(table)) * table.row_size

\* is_full that waits for the count to exceed the maximum.
is_full_late(table) == table.nb_rows > get_row_per_page(table) * TABLE_MAX_PAGES

is_full(table) == table.nb_rows = get_row_per_page(table) * TABLE_MAX_PAGES

\* Table::insert_row counting the row before its page is loaded and written.
insert_row_counted(table, f, row, read_ok) ==
    IF is_full(table) THEN [res |-> "Table is full", table |-> table]
    ELSE LET row_bytes == Serialize(row)
             page_id == get_page_id(table, row.id)
             offset == get_row_offset(table, row.id)
             counted == [table EXCEPT !.nb_rows = @ + 1]
             ld == load_page(table.pager, f, page_id, read_ok)
         IN  IF ld.res # "Ok" THEN [res |-> ld.res, table |-> counted]
             ELSE LET w == Page_write(ld.pager.pages[page_id][1], offset, row_bytes)
                      written == [counted EXCEPT
                                     !.pager = [ld.pager EXCEPT !.pages[page_id] = <<w.page>>]]
                  IN  IF w.res = "Ok"
                      THEN [res |-> "Ok", table |-> written]
                      ELSE [res |-> "failed to copy to page", table |-> written]

\* Table::insert_row: the result and the table after it.
insert_row(table, f, row, read_ok) ==
    IF is_full(table) THEN [res |-> "Table is full", table |-> table]
    ELSE LET row_bytes == Serialize(row)
             page_id == get_page_id(table, row.id)
             offset == get_row_offset(table, row.id)
             ld == load_page(table.pager, f, page_id, read_ok)
         IN  IF ld.res # "Ok" THEN [res |-> ld.res, table |-> table]
             ELSE LET w == Page_write(ld.pager.pages[page_id][1], offset, row_bytes)
                      written == [table EXCEPT
                                     !.pager = [ld.pager EXCEPT !.pages[page_id] = <<w.page>>]]
                  IN  IF w.res = "Ok"
                      THEN [res |-> "Ok", table |-> [written EXCEPT !.nb_rows = @ + 1]]
                      ELSE [res |-> "failed to copy to page", table |-> written]

\* The closure of Table::select_row for one row_id: the row's page is loaded
\* and the row's slice decoded; a failed load or decode panics (unwrap).
select_one(table, f, read_ok, row_id) ==
    LET page_id == get_page_id(table, row_id)
        row_offset == get_row_offset(table, row_id)
        ld == load_page(table.pager, f, page_id, read_ok)
        loaded == [table EXCEPT !.pager = ld.pager]
    IN  IF ld.res # "Ok" THEN [panic |-> TRUE, rows |-> <<>>, table |-> loaded]
        ELSE LET slice == SubSeq(ld.pager.pages[page_id][1].bytes,
                                 row_offset + 1, row_offset + table.row_size)
                 d == Deserialize(slice)
             IN  IF ~d.ok THEN [panic |-> TRUE, rows |-> <<>>, table |-> loaded]
                 ELSE [panic |-> FALSE, rows |-> <<d.row>>, table |-> loaded]

\* The map of Table::select_row over the row_ids lo .. hi - 1, in ascending
\* order; a panic ends it.  The range is split in two halves, the second
\* run on the table the first leaves, so that a full table can be evaluated.
RECURSIVE select_range(_, _, _, _, _)
select_range(table, f, read_ok, lo, hi) ==
    IF hi <= lo THEN [panic |-> FALSE, rows |-> <<>>, table |-> table]
    ELSE IF hi = lo + 1 THEN select_one(table, f, read_ok, lo)
    ELSE LET mid == (lo + hi) \div 2
             left == select_range(table, f, read_ok, lo, mid)
         IN  IF left.panic THEN left
             ELSE LET right == select_range(left.table, f, read_ok, mid, hi)
                  IN  [panic |-> right.panic, rows |-> left.rows \o right.rows,
                       table |-> right.table]

select_row(table, f, read_ok) == select_range(table, f, read_ok, 0, table.nb_rows)

(***************************************************************************)
(* The program as a state machine                                          *)
(***************************************************************************)
VARIABLES
    file,          \* the backing store's bytes (c.db); outlives the sessions
    table,         \* the session's Table, with its Pager and the Pager's pages
    phase,         \* "closed", "open", "panicked" (unwinding), "dropping"
    drop_page_id,  \* the loop variable of Pager::drop while it runs
    hist,          \* the calls made so far, with what they returned
    last,          \* the last call and what it returned
    page,          \* a Page on its own (the test `page`)
    input          \* the input of the test or call being run

vars == <<file, table, phase, drop_page_id, hist, last, page, input>>

NoRow == [id |-> 0, username |-> <<>>, email |-> <<>>]

NoTable ==
    [pager |-> [file_size |-> 0, pages |-> [p \in PageIds |-> <<>>]],
     nb_rows |-> 0, row_size |-> 0]

Call(op, row, res, rows) == [op |-> op, row |-> row, res |-> res, rows |-> rows]

NoCall == Call("none", NoRow, "Ok", <<>>)

Init ==
    /\ file = <<>>
    /\ table = NoTable
    /\ phase = "closed"
    /\ drop_page_id = 0
    /\ hist = <<>>
    /\ last = NoCall
    /\ page = Page_new(<<>>)
    /\ input = 0

\* main: the file is opened, Pager::new and Table::new run.
Open ==
    /\ phase = "closed"
    /\ table' = Table_new(Pager_new(file))
    /\ phase' = "open"
    /\ last' = Call("open", NoRow, "Ok", <<>>)
    /\ file' = file

\* An insert statement: Table::insert_row(&row).  A panic starts unwinding.
Insert(row, read_ok) ==
    /\ phase = "open"
    /\ LET r == insert_row(table, file, row, read_ok)
       IN  /\ table' = r.table
           /\ phase' = IF r.res = "panic" THEN "panicked" ELSE "open"
           /\ last' = Call("insert", row, r.res, <<>>)
    /\ file' = file

\* A select statement: Table::select_row().
Select(read_ok) ==
    /\ phase = "open"
    /\ LET r == select_row(table, file, read_ok)
       IN  /\ table' = r.table
           /\ phase' = IF r.panic THEN "panicked" ELSE "open"
           /\ last' = Call("select", NoRow, IF r.panic THEN "panic" ELSE "Ok", r.rows)
    /\ file' = file

\* The table goes out of scope (main returns, or a panic unwinds): the Pager
\* is dropped, which flushes every page.
Drop ==
    /\ phase \in {"open", "panicked"}
    /\ file' = Pager_drop(table.pager, file)
    /\ table' = NoTable
    /\ phase' = "closed"
    /\ last' = Call("drop", NoRow, "Ok", <<>>)

\* The .exit command: std::process::exit(0) ends the process; no destructor
\* runs, so nothing is flushed.
Exit ==
    /\ phase = "open"
    /\ file' = file
    /\ table' = NoTable
    /\ phase' = "closed"
    /\ last' = Call("exit", NoRow, "Ok", <<>>)

\* The call just made is added to the history.
Log ==
    /\ hist' = Append(hist, last')
    /\ UNCHANGED <<drop_page_id, page, input>>

(***************************************************************************)
(* Spec: sessions of insert and select statements over one store.          *)
(***************************************************************************)
\* The longest history from which a statement is still run.
MaxHist == 6

foo == <<102, 111, 111>>
bar == <<98, 97, 114>>
alice == <<97, 108, 105, 99, 101>>
alice_email ==
    <<97, 108, 105, 99, 101, 64, 101, 120, 97, 109, 112, 108, 101, 46, 99, 111, 109>>

\* The rows the statements insert: ids in the first two pages and, with 1300,
\* the first id beyond the last page.
Rows ==
    {Row_new(0, foo, bar).row, Row_new(1, alice, alice_email).row,
     Row_new(5, foo, bar).row, Row_new(13, foo, bar).row,
     Row_new(1300, foo, bar).row}

Next ==
    \/ Len(hist) < MaxHist /\ Open /\ Log
    \/ Len(hist) < MaxHist
         /\ \E row \in Rows, read_ok \in BOOLEAN : Insert(row, read_ok) /\ Log
    \/ Len(hist) < MaxHist /\ \E read_ok \in BOOLEAN : Select(read_ok) /\ Log
    \/ Drop /\ Log
    \/ Exit /\ Log

Spec == Init /\ [][Next]_vars

(***************************************************************************)
(* SpecSeq: the test `persistance` for any number of rows.  A first        *)
(* session inserts rows with the ids 0, 1, 2, ... in that order, the table *)
(* is dropped, and a second session over the same store selects.  Either   *)
(* session may select once its inserts are done.                           *)
(***************************************************************************)
\* The most rows the first session inserts.
MaxSeqRows == 15

Count(h, op) == Cardinality({i \in 1..Len(h) : h[i].op = op})

\* The row with id i; rows with different ids differ in their username too.
SeqRow(i) == Row_new(i, <<97 + (i % 26)>>, bar).row

NextSeq ==
    \/ Count(hist, "open") < 2 /\ Open /\ Log
    \/ /\ Count(hist, "open") = 1
       /\ Count(hist, "select") = 0
       /\ Count(hist, "insert") < MaxSeqRows
       /\ Insert(SeqRow(Count(hist, "insert")), TRUE)
       /\ Log
    \/ last.op # "select" /\ Select(TRUE) /\ Log
    \/ Drop /\ Log

SpecSeq == Init /\ [][NextSeq]_vars

(***************************************************************************)
(* SpecFill: the test `fill_table`.  Rows with the ids 0 .. max - 1 are    *)
(* inserted into a new table, then one more row; input is the loop         *)
(* variable.                                                               *)
(***************************************************************************)
FillMax == get_row_per_page(table) * TABLE_MAX_PAGES

NextFill ==
    \/ last.op = "none" /\ Open /\ UNCHANGED <<drop_page_id, hist, page, input>>
    \/ /\ phase = "open"
       /\ input < FillMax
       /\ \E read_ok \in BOOLEAN : Insert(SeqRow(input), read_ok)
       /\ input' = input + 1
       /\ UNCHANGED <<drop_page_id, hist, page>>
    \/ /\ phase = "open"
       /\ input = FillMax
       /\ \E id \in {0, FillMax - 1, FillMax}, read_ok \in BOOLEAN :
              Insert(SeqRow(id), read_ok)
       /\ input' = input + 1
       /\ UNCHANGED <<drop_page_id, hist, page>>

SpecFill == Init /\ [][NextFill]_vars

(***************************************************************************)
(* SpecDrop: sessions in which Pager::drop runs its loop one flush at a    *)
(* time.                                                                   *)
(***************************************************************************)
\* The longest history from which a statement is still run.
MaxDropHist == 5

\* Rows for two slots of page 0 and one of page 1.
DropRows == {Row_new(0, foo, bar).row, Row_new(5, foo, bar).row, Row_new(13, foo, bar).row}

\* Pager::drop is entered.
DropStart ==
    /\ phase \in {"open", "panicked"}
    /\ phase' = "dropping"
    /\ drop_page_id' = 0
    /\ last' = Call("drop", NoRow, "Ok", <<>>)
    /\ hist' = Append(hist, last')
    /\ UNCHANGED <<file, table, page, input>>

\* One iteration of the loop: self.flush(page_id).
DropFlush ==
    /\ phase = "dropping"
    /\ drop_page_id < TABLE_MAX_PAGES
    /\ file' = Pager_flush(table.pager, file, drop_page_id)
    /\ drop_page_id' = drop_page_id + 1
    /\ UNCHANGED <<table, phase, hist, last, page, input>>

\* The loop of Pager::drop ending one page early (0 .. len - 1).
DropEnd_early ==
    /\ phase = "dropping"
    /\ drop_page_id = TABLE_MAX_PAGES - 1
    /\ table' = NoTable
    /\ phase' = "closed"
    /\ drop_page_id' = 0
    /\ UNCHANGED <<file, hist, last, page, input>>

\* The loop is over; the pages and the file handle are released.
DropEnd ==
    /\ phase = "dropping"
    /\ drop_page_id = TABLE_MAX_PAGES
    /\ table' = NoTable
    /\ phase' = "closed"
    /\ drop_page_id' = 0
    /\ UNCHANGED <<file, hist, last, page, input>>

NextDrop ==
    \/ Len(hist) < MaxDropHist /\ Open /\ Log
    \/ Len(hist) < MaxDropHist
         /\ \E row \in DropRows, read_ok \in BOOLEAN : Insert(row, read_ok) /\ Log
    \/ Len(hist) < MaxDropHist /\ \E read_ok \in BOOLEAN : Select(read_ok) /\ Log
    \/ DropStart
    \/ DropFlush
    \/ DropEnd

SpecDrop == Init /\ [][NextDrop]_vars

\* The loop of SpecDrop and the Drop of Spec leave the same store: what is
\* still to be flushed gives the same result before and after each iteration.
DropLoopAgrees ==
    [][(phase = "dropping" /\ phase' = "dropping")
          => Pager_drop_from(table.pager, file, drop_page_id)
                 = Pager_drop_from(table'.pager, file', drop_page_id')]_vars

(***************************************************************************)
(* SpecPage: the test `page`.  A Page on its own receives writes.          *)
(***************************************************************************)
\* The most writes made to the page.
MaxWrites == 2

WriteOffsets == {0, 100, 3684, 3789, 3790, 4086, 4087, 4095, PAGE_SIZE, 4097, 5000}

WriteData ==
    {<<>>, <<1>>, Repeat(1, 10), Serialize(Row_new(7, foo, bar).row),
     Repeat(9, PAGE_SIZE), Repeat(9, PAGE_SIZE + 1)}

InitPage ==
    /\ file = <<>>
    /\ table = NoTable
    /\ phase = "page"
    /\ drop_page_id = 0
    /\ hist = <<>>
    /\ last = NoCall
    /\ page = Page_new(Repeat(0, PAGE_SIZE))
    /\ input = <<0, <<>>>>

\* page.write(offset, data); input keeps the arguments.
WritePage(offset, data) ==
    /\ phase = "page"
    /\ Len(hist) < MaxWrites
    /\ LET w == Page_write(page, offset, data)
       IN  /\ page' = w.page
           /\ last' = Call("write", NoRow, w.res, <<>>)
    /\ input' = <<offset, data>>
    /\ hist' = Append(hist, last')
    /\ UNCHANGED <<file, table, phase, drop_page_id>>

NextPage == \E offset \in WriteOffsets, data \in WriteData : WritePage(offset, data)

SpecPage == InitPage /\ [][NextPage]_vars

(***************************************************************************)
(* SpecRow: Row::new on its own (the tests `rows` and `insert_truncate`);  *)
(* input is <<id, username, email>>.                                       *)
(***************************************************************************)
\* e with an acute accent: two bytes in UTF-8.
e_acute == <<195, 169>>

\* Texts shorter than, as long as and longer than the two caps; with a
\* two-byte character inside, at the end, and across each cap; with white
\* space at an end.
Texts ==
    {<<>>, foo, alice_email, <<9>> \o foo, foo \o <<9>>, e_acute, foo \o e_acute \o bar,
     Repeat(97, COLUMN_USERNAME_SIZE - 1), Repeat(97, COLUMN_USERNAME_SIZE),
     Repeat(97, COLUMN_USERNAME_SIZE + 2),
     Repeat(97, COLUMN_USERNAME_SIZE - 1) \o e_acute,
     Repeat(88, COLUMN_EMAIL_SIZE), Repeat(88, COLUMN_EMAIL_SIZE + 4),
     Repeat(88, COLUMN_EMAIL_SIZE - 1) \o e_acute}

InitRow ==
    /\ file = <<>>
    /\ table = NoTable
    /\ phase = "row"
    /\ drop_page_id = 0
    /\ hist = <<>>
    /\ last = NoCall
    /\ page = Page_new(<<>>)
    /\ input \in {1} \X Texts \X Texts

\* Row::new(id, username, email); a panic in pad_string ends the process.
NewRow ==
    /\ phase = "row"
    /\ LET r == Row_new(input[1], input[2], input[3])
       IN  /\ last' = Call("Row::new", r.row, IF r.panic THEN "panic" ELSE "Ok", <<>>)
           /\ phase' = IF r.panic THEN "panicked" ELSE "made"
    /\ UNCHANGED <<file, table, drop_page_id, hist, page, input>>

NextRow == NewRow

SpecRow == InitRow /\ [][NextRow]_vars

(***************************************************************************)
(* SpecFull: a table filled in a session over a store an earlier session   *)
(* left.  The first session inserts one row and is dropped; the second     *)
(* inserts rows with the ids 0, 1, 2, ... until the table is full, then    *)
(* goes on inserting and selects.  An insert that fails for a read of the  *)
(* store is made again.  input counts the inserts that succeeded in        *)
(* filling the table; hist holds the other calls.                          *)
(***************************************************************************)
\* The most calls made on the full table.
MaxAfterFull == 2

\* The rows of the first session: the stores they leave have one page (of 1
\* or 13 slots) or three pages, and are reopened with nb_rows 1, 13 and 13.
FullSeeds == {Row_new(0, foo, bar).row, Row_new(12, foo, bar).row,
              Row_new(38, foo, bar).row}

\* The number of calls of h made on the full table.
AfterFull(h) ==
    Cardinality({i \in 1..Len(h) : h[i].op = "select" \/ h[i].res = "Table is full"})

NextFull ==
    \/ /\ Count(hist, "open") = 0 \/ (Count(hist, "open") = 1 /\ last.op = "drop")
       /\ Open
       /\ Log
    \/ /\ Len(hist) = 1
       /\ \E row \in FullSeeds : Insert(row, TRUE)
       /\ Log
    \/ /\ Len(hist) = 2
       /\ Drop
       /\ Log
    \/ /\ Count(hist, "open") = 2
       /\ phase = "open"
       /\ ~is_full(table)
       /\ \E read_ok \in BOOLEAN : Insert(SeqRow(input), read_ok)
       /\ input' = IF last'.res = "Ok" THEN input + 1 ELSE input
       /\ UNCHANGED <<drop_page_id, hist, page>>
    \/ /\ Count(hist, "open") = 2
       /\ phase = "open"
       /\ is_full(table)
       /\ AfterFull(hist) < MaxAfterFull
       /\ \E id \in {0, FillMax} : Insert(SeqRow(id), TRUE)
       /\ Log
    \/ /\ Count(hist, "open") = 2
       /\ phase = "open"
       /\ is_full(table)
       /\ AfterFull(hist) < MaxAfterFull
       /\ last.op # "select"
       /\ Select(TRUE)
       /\ Log

SpecFull == Init /\ [][NextFull]_vars

(***************************************************************************)
(* SpecRead: sessions that only select, over any store.  The store is      *)
(* chosen at the start and input keeps it; Pager::drop runs flush by       *)
(* flush.                                                                  *)
(***************************************************************************)
\* The longest history from which a session is opened or a select is run.
MaxReadHist == 3

\* Stores: empty; one byte; one row; a row in each of two pages; bytes that
\* decode to no row, in two pages; seventeen pages of zeros, all but one byte.
ReadStores ==
    {<<>>, <<7>>,
     Serialize(Row_new(0, foo, bar).row),
     Serialize(Row_new(0, foo, bar).row)
         \o Repeat(0, PAGE_SIZE - Len(Serialize(Row_new(0, foo, bar).row)))
         \o Serialize(Row_new(13, alice, alice_email).row),
     Repeat(255, PAGE_SIZE + 300),
     Repeat(0, 17 * PAGE_SIZE - 1)}

InitRead ==
    /\ file \in ReadStores
    /\ input = file
    /\ table = NoTable
    /\ phase = "closed"
    /\ drop_page_id = 0
    /\ hist = <<>>
    /\ last = NoCall
    /\ page = Page_new(<<>>)

NextRead ==
    \/ Len(hist) < MaxReadHist /\ Open /\ Log
    \/ Len(hist) < MaxReadHist /\ \E read_ok \in BOOLEAN : Select(read_ok) /\ Log
    \/ DropStart
    \/ DropFlush
    \/ DropEnd

SpecRead == InitRead /\ [][NextRead]_vars

(***************************************************************************)
(* The claims                                                              *)
(*                                                                         *)
(* The quantities the specification names, computed from its own figures   *)
(* (section 6: a record is 4 bytes of id and two length-prefixed fields).  *)
(***************************************************************************)
RecordLength == 4 + (8 + COLUMN_USERNAME_SIZE) + (8 + COLUMN_EMAIL_SIZE)

RecordsPerPage == PAGE_SIZE \div RecordLength

Capacity == RecordsPerPage * TABLE_MAX_PAGES

\* The rows of the successful inserts of a history, in order.
InsertedRows(h) ==
    LET ok == SelectSeq(h, LAMBDA c : c.op = "insert" /\ c.res = "Ok")
    IN  [i \in 1..Len(ok) |-> ok[i].row]

\* The history of SpecSeq that C1 and C5 are about: a first session that
\* inserted its rows and was dropped, and a second session just opened.
Reopened ==
    /\ Count(hist, "open") = 2
    /\ Count(hist, "drop") = 1

\* C1: persistence round trip.  When N rows with the ids 0 .. N-1 were
\* inserted in that order over an empty store, the Pager was dropped and a new
\* Table was opened over the same store, select_row on the new Table returns
\* exactly those N rows, in the same order.
C1_PersistenceRoundTrip ==
    (Reopened /\ last.op = "select")
        => (last.res = "Ok" /\ last.rows = InsertedRows(hist))

\* C2: insert then enumerate.  After one successful insert of a row r into an
\* empty table, select_row returns exactly one row, and it is r (same id, same
\* username and email once trimmed).
C2_InsertThenEnumerate ==
    (/\ Len(hist) = 3
     /\ hist[1].op = "open"
     /\ hist[2].op = "insert" /\ hist[2].res = "Ok"
     /\ hist[3].op = "select")
        => (/\ hist[3].res = "Ok"
            /\ Len(hist[3].rows) = 1
            /\ RowDebug(hist[3].rows[1]) = RowDebug(hist[2].row))

\* C3: capacity boundary.  From an empty table the inserts of the ids
\* 0 .. Capacity - 1 all succeed, each raising the count by one; the insert
\* after them, whatever its id, fails with "Table is full", and the count is
\* Capacity before and after it.  (input counts the inserts made.)
C3_CapacityBoundary ==
    /\ phase # "panicked"
    /\ last.op = "open" => table.nb_rows = 0
    /\ last.op = "insert" =>
          IF input <= Capacity
          THEN last.res = "Ok" /\ table.nb_rows = input
          ELSE last.res = "Table is full" /\ table.nb_rows = Capacity

\* C3's case: the table was filled and the insert after that was refused.
C3_Witness ==
    /\ input = Capacity + 1
    /\ last.op = "insert"
    /\ last.row.id = Capacity
    /\ last.res = "Table is full"
    /\ table.nb_rows = Capacity

\* C4: insert is never process-fatal.  Whatever the table and the row's id,
\* insert_row returns Ok or an error to its caller; it never panics.
C4_InsertNeverFatal == last.op = "insert" => last.res # "panic"

\* C5: the record count is recovered at open.  When N rows with the ids
\* 0 .. N-1 were inserted over an empty store and the Pager was dropped, a
\* Table newly constructed over the same store has nb_rows = N.
C5_CountRecovered ==
    (Reopened /\ last.op = "open") => table.nb_rows = Len(InsertedRows(hist))

\* The bytes [n * 4096, (n + 1) * 4096) of the store f, with zeros past its end.
StoreSlice(f, n) ==
    LET got == SubSeq(f, n * PAGE_SIZE + 1, Min(Len(f), (n + 1) * PAGE_SIZE))
    IN  got \o Repeat(0, PAGE_SIZE - Len(got))

\* C6: page load content.  When a step materializes page n, the page's buffer
\* holds the store's bytes of that page, with zeros past the end of the store
\* (and so all zeros for a page beyond the store).  An insert writes its row
\* into the page it loads: there the bytes outside the row's slot are compared.
C6_PageLoadContent ==
    [][\A n \in PageIds :
          (/\ phase = "open"
           /\ table.pager.pages[n] = <<>>
           /\ table'.pager.pages[n] # <<>>)
              => LET bytes == table'.pager.pages[n][1].bytes
                     want == StoreSlice(file, n)
                     lo == (last'.row.id % RecordsPerPage) * RecordLength
                     hi == lo + RecordLength
                 IN  IF last'.op = "insert"
                     THEN /\ SubSeq(bytes, 1, lo) = SubSeq(want, 1, lo)
                          /\ SubSeq(bytes, hi + 1, PAGE_SIZE) = SubSeq(want, hi + 1, PAGE_SIZE)
                     ELSE bytes = want]_vars

\* The decoding of the slot of index i in the table's pages, as the claim
\* places it: page i / RecordsPerPage, offset (i mod RecordsPerPage) * RecordLength.
SlotOfIndex(t, i) ==
    LET opt == t.pager.pages[i \div RecordsPerPage]
        offset == (i % RecordsPerPage) * RecordLength
    IN  IF opt = <<>> THEN [ok |-> FALSE, row |-> NoRow]
        ELSE Deserialize(SubSeq(opt[1].bytes, offset + 1, offset + RecordLength))

\* C7: enumeration is by index.  A select that returns yields exactly nb_rows
\* rows, the i-th being the decoding of the slot of index i, whatever ids were
\* inserted; so after a first insert with id 5 it yields the decoding of the
\* zeroed slot 0, not the row inserted.
C7_EnumerateByIndex ==
    (last.op = "select" /\ last.res = "Ok") =>
        /\ Len(last.rows) = table.nb_rows
        /\ \A i \in 0..(table.nb_rows - 1) :
              /\ SlotOfIndex(table, i).ok
              /\ last.rows[i + 1] = SlotOfIndex(table, i).row
        /\ (Len(hist) = 3 /\ hist[2].op = "insert" /\ hist[2].res = "Ok"
                /\ hist[2].row.id = 5)
              => last.rows = <<NoRow>>

\* C7's case: the first insert had id 5 and the select after it returned the
\* empty row of slot 0.
C7_Witness ==
    /\ Len(hist) = 3
    /\ hist[2].op = "insert" /\ hist[2].res = "Ok" /\ hist[2].row.id = 5
    /\ last.op = "select" /\ last.res = "Ok"
    /\ last.rows = <<NoRow>>
    /\ last.rows[1] # hist[2].row

\* C8: Page::write.  A write with offset + length > 4096 returns "not enough
\* space to write" and leaves the buffer and end_offset as they were; any
\* other write succeeds, puts data at [offset, offset + length), leaves the
\* other bytes alone and sets end_offset to the larger of its old value and
\* offset + length.  (input' holds the arguments of the write.)
C8_PageWrite ==
    [][LET offset == input'[1]
           data == input'[2]
           end == offset + Len(data)
       IN  IF end > PAGE_SIZE
           THEN last'.res = "not enough space to write" /\ page' = page
           ELSE /\ last'.res = "Ok"
                /\ Len(page'.bytes) = PAGE_SIZE
                /\ SubSeq(page'.bytes, offset + 1, end) = data
                /\ SubSeq(page'.bytes, 1, offset) = SubSeq(page.bytes, 1, offset)
                /\ SubSeq(page'.bytes, end + 1, PAGE_SIZE) = SubSeq(page.bytes, end + 1, PAGE_SIZE)
                /\ page'.end_offset = IF end > page.end_offset THEN end ELSE page.end_offset]_vars

\* C8's case: after the write of the test (10 bytes at 100) succeeded, a write
\* of one byte at offset 4096 was refused and the page is as the first write
\* left it.
C8_Witness ==
    /\ Len(hist) = 2
    /\ hist[1].res = "Ok"
    /\ input = <<PAGE_SIZE, <<1>>>>
    /\ last.res = "not enough space to write"
    /\ page.end_offset = 110
    /\ SubSeq(page.bytes, 101, 110) = Repeat(1, 10)

\* The store f read as bytes 0 .. len - 1, with zeros past its end.
Extended(f, len) == f \o Repeat(0, len - Len(f))

\* What flushing page n may do to the store, f before and g after: with the
\* page None nothing; else only the bytes [n * 4096, n * 4096 + h) change, to
\* the first h bytes of the buffer, every other byte reads as before, and the
\* store neither shrinks nor grows past the bytes written.
FlushFrame(f, g, opt, n) ==
    IF opt = <<>> THEN g = f
    ELSE LET h == opt[1].end_offset
             base == n * PAGE_SIZE
             len == IF Len(f) > Len(g) THEN Len(f) ELSE Len(g)
             F == Extended(f, len)
             G == Extended(g, len)
         IN  /\ Len(g) >= Len(f)
             /\ Len(g) <= (IF Len(f) > base + h \/ h = 0 THEN Len(f) ELSE base + h)
             /\ SubSeq(G, 1, Min(base, len)) = SubSeq(F, 1, Min(base, len))
             /\ h > 0 => /\ Len(g) >= base + h
                         /\ SubSeq(g, base + 1, base + h) = SubSeq(opt[1].bytes, 1, h)
             /\ SubSeq(G, base + h + 1, len) = SubSeq(F, base + h + 1, len)

\* C9: the frame of a flush.  Each flush of the loop changes the store as
\* FlushFrame allows.
C9_FlushFrame ==
    [][(phase = "dropping" /\ drop_page_id' = drop_page_id + 1)
          => FlushFrame(file, file', table.pager.pages[drop_page_id], drop_page_id)]_vars

\* C9's case: page 0 was flushed with a high-water mark h over a store that
\* held other bytes there and beyond; the first h bytes are now the buffer's
\* and the store still has nonzero bytes of the earlier session after them.
C9_Witness ==
    /\ phase = "dropping"
    /\ drop_page_id = 1
    /\ table.pager.pages[0] # <<>>
    /\ LET p == table.pager.pages[0][1]
       IN  /\ p.end_offset > 0
           /\ p.end_offset < Len(file)
           /\ table.pager.file_size = Len(file)
           /\ SubSeq(file, 1, p.end_offset) = SubSeq(p.bytes, 1, p.end_offset)
           /\ \E i \in (p.end_offset + 1)..Len(file) : file[i] # 0 /\ p.bytes[i] = 0

\* What the claim says is stored for a text under a cap of cap bytes.
StoredAsClaimed(text, stored, cap) ==
    LET kept == IF Len(text) > cap THEN SubSeq(text, 1, cap) ELSE text
    IN  /\ Len(stored) = cap
        /\ stored = kept \o Repeat(32, cap - Len(kept))
        /\ trim(stored) = kept

\* C10: truncation and padding.  For every text Row::new stores a username
\* of exactly 32 bytes and an email of exactly 255: the first cap bytes of a
\* longer text, a shorter text followed by spaces; trimming the stored value
\* gives back the (possibly truncated) text.
C10_TruncateAndPad ==
    last.op = "Row::new" =>
        /\ last.res = "Ok"
        /\ StoredAsClaimed(input[2], last.row.username, COLUMN_USERNAME_SIZE)
        /\ StoredAsClaimed(input[3], last.row.email, COLUMN_EMAIL_SIZE)

\* C11: the high-water mark.  After every step each page that is Some has
\* end_offset <= 4096, and while the session lasts (insert, select, the loads
\* they make, each flush of the drop loop) a page that is Some stays Some with
\* an end_offset that is not lower than before.
C11_HighWaterMark ==
    [][/\ \A n \in PageIds :
             table'.pager.pages[n] # <<>>
                 => table'.pager.pages[n][1].end_offset <= PAGE_SIZE
       /\ phase' # "closed"
             => \A n \in PageIds :
                   table.pager.pages[n] # <<>>
                       => /\ table'.pager.pages[n] # <<>>
                          /\ table'.pager.pages[n][1].end_offset
                                 >= table.pager.pages[n][1].end_offset]_vars

\* C11's case: a row was written below the page's high-water mark (id 0
\* after id 5) and the mark stayed where the earlier insert put it.
C11_Witness ==
    /\ phase = "open"
    /\ last.op = "insert" /\ last.res = "Ok" /\ last.row.id = 0
    /\ table.pager.pages[0] # <<>>
    /\ table.pager.pages[0][1].end_offset = 6 * RecordLength

\* C12: full is absorbing and the count is bounded.  In a session over a
\* store an earlier session of the program left, nb_rows never exceeds
\* Capacity; once nb_rows = Capacity every insert returns "Table is full",
\* nb_rows stays as it is and a select returns Capacity rows.
C12_FullIsAbsorbing ==
    [][/\ table'.nb_rows <= Capacity
       /\ (phase = "open" /\ table.nb_rows = Capacity)
             => /\ table'.nb_rows = Capacity
                /\ last'.op \in {"insert", "select"}
                /\ last'.op = "insert" => last'.res = "Table is full"
                /\ last'.op = "select"
                      => last'.res = "Ok" /\ Len(last'.rows) = Capacity]_vars

\* C12's case: the session was opened over a store of one slot, which gave
\* it nb_rows = 1; 1299 inserts filled the table, a select returned Capacity
\* rows and an insert after it was refused.
C12_Witness ==
    /\ phase = "open"
    /\ table.pager.file_size = RecordLength
    /\ table.nb_rows = Capacity
    /\ input = Capacity - 1
    /\ hist[Len(hist) - 1].op = "select"
    /\ Len(hist[Len(hist) - 1].rows) = Capacity
    /\ last.op = "insert" /\ last.res = "Table is full"

\* C13: load is idempotent and materialization is one-way.  In every state
\* of a session load_page of a page that is Some returns Ok and leaves the
\* pager as it is, whether or not the store can be read and whatever the store
\* holds; and until the pages are released a page that is Some stays Some,
\* and stays as it is in every step but an insert.
C13_LoadIdempotent ==
    [][/\ \A n \in PageIds :
             table'.pager.pages[n] # <<>>
                 => /\ \A read_ok \in BOOLEAN :
                          load_page(table'.pager, file', n, read_ok)
                              = [res |-> "Ok", pager |-> table'.pager]
                    /\ load_page(table'.pager, <<>>, n, TRUE)
                           = [res |-> "Ok", pager |-> table'.pager]
       /\ phase' # "closed"
             => \A n \in PageIds :
                   table.pager.pages[n] # <<>>
                       => /\ table'.pager.pages[n] # <<>>
                          /\ ~(phase = "open" /\ last'.op = "insert")
                                => table'.pager.pages[n] = table.pager.pages[n]]_vars

\* C13's case: a row was written to page 0, which the store does not hold
\* yet, and the select after it loaded page 0 again and returned the row.
C13_Witness ==
    /\ phase = "open"
    /\ Len(hist) >= 2
    /\ hist[Len(hist) - 1].op = "insert"
    /\ hist[Len(hist) - 1].res = "Ok"
    /\ hist[Len(hist) - 1].row.id = 0
    /\ last.op = "select" /\ last.res = "Ok"
    /\ last.rows # <<>>
    /\ last.rows[1] = hist[Len(hist) - 1].row
    /\ table.pager.pages[0] # <<>>
    /\ table.pager.pages[0][1].bytes # StoreSlice(file, 0)

\* C14: persistence only at teardown, in ascending order.  No insert and no
\* select changes the store.  Pager::drop starts at page 0, each of its steps
\* changes at most the store's bytes of the page of its number and goes to the
\* next number, it ends only past page 99, and when it ends the store holds, for every page that is
\* Some, the page's bytes below its end_offset.
C14_PersistOnlyAtDrop ==
    [][/\ phase = "open" => file' = file
       /\ (phase # "dropping" /\ phase' = "dropping") => drop_page_id' = 0
       /\ (phase = "dropping" /\ phase' = "dropping")
             => /\ drop_page_id < TABLE_MAX_PAGES
                /\ drop_page_id' = drop_page_id + 1
                /\ table' = table
                /\ LET base == drop_page_id * PAGE_SIZE
                       len == max(Len(file), Len(file'))
                       before == Extended(file, len)
                       after == Extended(file', len)
                   IN  /\ SubSeq(after, 1, Min(base, len)) = SubSeq(before, 1, Min(base, len))
                       /\ SubSeq(after, base + PAGE_SIZE + 1, len)
                              = SubSeq(before, base + PAGE_SIZE + 1, len)
       /\ (phase = "dropping" /\ phase' # "dropping")
             => /\ drop_page_id = TABLE_MAX_PAGES
                /\ file' = file
                /\ \A n \in PageIds :
                      table.pager.pages[n] # <<>>
                          => LET p == table.pager.pages[n][1]
                             IN  SubSeq(StoreSlice(file, n), 1, p.end_offset)
                                     = SubSeq(p.bytes, 1, p.end_offset)]_vars

\* C14's case: the loop of Pager::drop has passed page 99 in a session that
\* wrote rows to pages 0 and 1, and the store holds both rows.
C14_Witness ==
    /\ phase = "dropping"
    /\ drop_page_id = TABLE_MAX_PAGES
    /\ table.pager.pages[0] # <<>> /\ table.pager.pages[0][1].end_offset = RecordLength
    /\ table.pager.pages[1] # <<>> /\ table.pager.pages[1][1].end_offset = RecordLength
    /\ Len(file) = PAGE_SIZE + RecordLength
    /\ Deserialize(SubSeq(file, 1, RecordLength)).row.id = 0
    /\ Deserialize(SubSeq(file, PAGE_SIZE + 1, PAGE_SIZE + RecordLength)).row.id = 13

\* C15: a failed insert changes nothing.  When insert_row returns an error
\* ("Table is full", "Failed to read file", "failed to copy to page"), nb_rows
\* and every page of the pager, its bytes and its end_offset, are after the
\* call what they were before it.
C15_FailedInsertNoChange ==
    [][(phase = "open" /\ last'.op = "insert" /\ last'.res \notin {"Ok", "panic"})
          => /\ last'.res \in {"Table is full", "Failed to read file", "failed to copy to page"}
             /\ table'.nb_rows = table.nb_rows
             /\ table'.pager.pages = table.pager.pages]_vars

\* C15's case: an insert failed on a read of the store in a session that had
\* rows written in a cached page.
C15_Witness ==
    /\ phase = "open"
    /\ last.op = "insert"
    /\ last.res = "Failed to read file"
    /\ table.nb_rows > 0
    /\ table.pager.pages[0] # <<>>
    /\ table.pager.pages[0][1].end_offset = RecordsPerPage * RecordLength
    /\ table.pager.pages[1] = <<>>

\* Record ids: every remainder modulo RecordsPerPage, the ids around the
\* capacity, and the largest ids of 31 bits.
SomeIds == 0..(2 * RecordsPerPage) \cup {Capacity - 1, Capacity, 2147483646, 2147483647}

\* C16: OutOfSpace is unreachable from insert.  For every id the offset
\* insert_row computes is (id mod RecordsPerPage) * RecordLength with
\* RecordsPerPage = 4096 / RecordLength, the row's bytes end within the page
\* there and Page::write accepts them; and no insert returns "failed to copy
\* to page".
C16_NoOutOfSpace ==
    /\ last.res # "failed to copy to page"
    /\ phase = "open"
          => /\ get_row_per_page(table) = PAGE_SIZE \div RecordLength
             /\ \A id \in SomeIds \cup {last.row.id} :
                   LET offset == get_row_offset(table, id)
                       row_bytes == Serialize(last.row)
                   IN  /\ offset = (id % RecordsPerPage) * RecordLength
                       /\ offset + table.row_size <= PAGE_SIZE
                       /\ last.op = "insert"
                             => /\ Len(row_bytes) = RecordLength
                                /\ Page_write(Page_new(Repeat(0, PAGE_SIZE)),
                                              offset, row_bytes).res = "Ok"

\* C16's case: a row was inserted into the last slot of a page, and the
\* page's high-water mark is the end of that slot.
C16_Witness ==
    /\ phase = "open"
    /\ last.op = "insert" /\ last.res = "Ok"
    /\ last.row.id = 2 * RecordsPerPage - 1
    /\ table.pager.pages[1] # <<>>
    /\ table.pager.pages[1][1].end_offset = RecordsPerPage * RecordLength
    /\ table.pager.pages[1][1].end_offset + RecordLength > PAGE_SIZE

\* The RecordLength bytes of the store f at the slot of the record id, as the
\* specification places it, with zeros past the end of the store.
StoreSlot(f, id) ==
    LET start == (id \div RecordsPerPage) * PAGE_SIZE + (id % RecordsPerPage) * RecordLength
    IN  SubSeq(Extended(f, start + RecordLength), start + 1, start + RecordLength)

\* Two sessions, each of one successful insert and torn down by Drop, the
\* first over the empty store, the two rows of different ids.
TwoSessions ==
    /\ Len(hist) = 6
    /\ hist[1].op = "open"
    /\ hist[2].op = "insert" /\ hist[2].res = "Ok"
    /\ hist[3].op = "drop"
    /\ hist[4].op = "open"
    /\ hist[5].op = "insert" /\ hist[5].res = "Ok"
    /\ hist[5].row.id # hist[2].row.id
    /\ hist[6].op = "drop"

\* C17: records of an earlier session survive a later session.  After two
\* such sessions the store's bytes at the slot of the first row are still the
\* encoding of the first row.
C17_EarlierRecordsSurvive ==
    TwoSessions => StoreSlot(file, hist[2].row.id) = Serialize(hist[2].row)

\* C18: an insert touches only its own slot.  A successful insert of a row
\* with id k adds one to nb_rows, leaves every page but page k / RecordsPerPage
\* as it was (None pages None), and in that page puts the row's encoding at
\* [(k mod RecordsPerPage) * RecordLength, + RecordLength); if the page was
\* Some before, its other bytes are as before and its end_offset is not
\* lower.  The slot of no other id below Capacity overlaps the slot of k.
C18_InsertOwnSlot ==
    [][(phase = "open" /\ last'.op = "insert" /\ last'.res = "Ok")
          => LET k == last'.row.id
                 pn == k \div RecordsPerPage
                 off == (k % RecordsPerPage) * RecordLength
                 old == table.pager.pages
                 new == table'.pager.pages
             IN  /\ k < Capacity
                 /\ table'.nb_rows = table.nb_rows + 1
                 /\ \A n \in PageIds \ {pn} : new[n] = old[n]
                 /\ new[pn] # <<>>
                 /\ SubSeq(new[pn][1].bytes, off + 1, off + RecordLength) = Serialize(last'.row)
                 /\ old[pn] # <<>>
                       => /\ SubSeq(new[pn][1].bytes, 1, off) = SubSeq(old[pn][1].bytes, 1, off)
                          /\ SubSeq(new[pn][1].bytes, off + RecordLength + 1, PAGE_SIZE)
                                 = SubSeq(old[pn][1].bytes, off + RecordLength + 1, PAGE_SIZE)
                          /\ new[pn][1].end_offset >= old[pn][1].end_offset
                 /\ \A j \in (0..(2 * RecordsPerPage) \cup {Capacity - 1}) \ {k} :
                       LET offj == (j % RecordsPerPage) * RecordLength
                       IN  \/ j \div RecordsPerPage # pn
                           \/ offj + RecordLength <= off
                           \/ off + RecordLength <= offj]_vars

\* C18's case: the row with id 1 was inserted while page 0 held the row with
\* id 0 and page 1 the row with id 13; both are still there.
C18_Witness ==
    /\ phase = "open"
    /\ last.op = "insert" /\ last.res = "Ok" /\ last.row.id = 1
    /\ table.nb_rows = 3
    /\ table.pager.pages[0] # <<>>
    /\ table.pager.pages[1] # <<>>
    /\ Deserialize(SubSeq(table.pager.pages[0][1].bytes, 1, RecordLength)).row
           = Row_new(0, foo, bar).row
    /\ Deserialize(SubSeq(table.pager.pages[1][1].bytes, 1, RecordLength)).row
           = Row_new(13, foo, bar).row
    /\ SubSeq(table.pager.pages[0][1].bytes, RecordLength + 1, 2 * RecordLength)
           = Serialize(last.row)

\* C19: a session that only selects does not alter the store.  Over any
\* store, a select leaves nb_rows as it is, every page that is Some has
\* end_offset 0, and at every point of the session and of its teardown the
\* store is byte for byte the store at the start (input).
C19_ReadOnlySession ==
    [][/\ file' = input'
       /\ input' = input
       /\ (phase = "open" /\ last'.op = "select") => table'.nb_rows = table.nb_rows
       /\ \A n \in PageIds :
             table'.pager.pages[n] # <<>> => table'.pager.pages[n][1].end_offset = 0]_vars

\* C19's case: a session over a store of two pages selected, which read
\* page 0 from the store and returned its row, and was torn down; the store
\* is what it was.
C19_Witness ==
    /\ phase = "closed"
    /\ last.op = "drop"
    /\ Len(hist) = 3
    /\ hist[2].op = "select" /\ hist[2].res = "Ok"
    /\ hist[2].rows = <<Row_new(0, foo, bar).row>>
    /\ Len(file) > PAGE_SIZE
    /\ file = input

====
